---- MODULE Spec2Model ----
(***************************************************************************)
(* FileCookieStorage (src/lib/FileCookieStorage.ts): an in-memory index of *)
(* cookies (domain -> path -> key -> cookie), loaded from a JSON file on   *)
(* first use, written back by a timer armed by mutations, and optionally   *)
(* proxied to a second instance running in a worker thread.                *)
(*                                                                         *)
(* A JavaScript Map is an insertion-ordered sequence of <<key, value>>     *)
(* entries; a JSON object read from the file is the same.                  *)
(***************************************************************************)
EXTENDS Integers, Sequences, FiniteSets, TLC

\* ------------------------------------------------------------- bounds

\* Public calls made on the store in one run.
MaxOps == 2
\* options.debounceDelay, in clock ticks.
DebounceDelay == 2
\* Requests the bridge posts to the worker before its process exits.
MaxMsgs == 2

\* ------------------------------------------------------------ values

\* creation: a Date (milliseconds, >= 0), the string 'Infinity', or null.
Infinity == -1
Null == -2

\* An argument that was omitted or passed as null.
NoPath == "<null>"

EXAMPLE == "example.com"
WWW == "www.example.com"

Cookie(d, p, k, v, c) == [domain |-> d, path |-> p, key |-> k, value |-> v, creation |-> c]

CookieA == Cookie(EXAMPLE, "/", "k", "v1", 1)
CookieA2 == Cookie(EXAMPLE, "/", "k", "v2", 2)
CookieB == Cookie(EXAMPLE, "/x", "k", "v1", 1)
CookieW == Cookie(WWW, "/", "k", "v1", Infinity)

\* The cookies callers pass in; CookieW is met in a file only.
CookiePool == {CookieA, CookieA2, CookieB}

Domains == {c.domain : c \in CookiePool}
Paths == {c.path : c \in CookiePool}
Keys == {c.key : c \in CookiePool}

\* ----------------------------------------------------- Map operations

Entry(k, v) == [k |-> k, v |-> v]

MapKeys(m) == {m[i].k : i \in 1..Len(m)}

MapHas(m, k) == k \in MapKeys(m)

MapGet(m, k) == m[CHOOSE i \in 1..Len(m) : m[i].k = k].v

\* Map.set: an existing key keeps its place, a new key goes last.
MapSet(m, k, v) ==
    IF MapHas(m, k)
    THEN [i \in 1..Len(m) |-> IF m[i].k = k THEN Entry(k, v) ELSE m[i]]
    ELSE Append(m, Entry(k, v))

MapDelete(m, k) == SelectSeq(m, LAMBDA e : e.k # k)

RECURSIVE Concat(_)
Concat(ss) == IF ss = <<>> THEN <<>> ELSE Head(ss) \o Concat(Tail(ss))

\* [...map.values()]
MapValues(m) == [i \in 1..Len(m) |-> m[i].v]

\* ------------------------------------------------------------- codec

\* cookie.toJSON(): a date becomes its ISO string, 'Infinity' stays, null stays.
serialize(cookie) ==
    [json |-> "object",
     key |-> cookie.key, value |-> cookie.value,
     domain |-> cookie.domain, path |-> cookie.path,
     creation |-> IF cookie.creation = Infinity THEN [str |-> "Infinity", ms |-> 0]
                  ELSE IF cookie.creation = Null THEN [str |-> "null", ms |-> 0]
                  ELSE [str |-> "iso", ms |-> cookie.creation]]

\* A leaf of the file that Cookie.fromJSON gives no cookie for (null, "", text
\* that is not JSON).
BadData == [json |-> "bad"]

\* deserialize(data): <<cookie>>, or <<>> for undefined.
deserialize(data) ==
    IF data.json # "object" THEN <<>>
    ELSE <<Cookie(data.domain, data.path, data.key, data.value,
                  IF data.creation.str = "Infinity" THEN Infinity
                  ELSE IF data.creation.str = "null" THEN Null
                  ELSE data.creation.ms)>>

\* ------------------------------------------------------ the Index

EmptyIdx == <<>>

\* getCookieFromIndex(domainIndex, path, key): <<cookie>> or <<>>.
getCookieFromIndex(domainIndex, path, key) ==
    IF ~MapHas(domainIndex, path) THEN <<>>
    ELSE LET pathIndex == MapGet(domainIndex, path)
         IN  IF MapHas(pathIndex, key) THEN <<MapGet(pathIndex, key)>> ELSE <<>>

\* The lookup of findCookie / findCookieSync after initialization.
findCookieInIndex(idx, domain, path, key) ==
    IF ~MapHas(idx, domain) THEN <<>>
    ELSE getCookieFromIndex(MapGet(idx, domain), path, key)

\* addCookieToIndex, were it to leave a cookie that is already stored under
\* the key in its place.
addCookieToIndexKeeps(idx, cookie) ==
    LET domainIndex == IF MapHas(idx, cookie.domain) THEN MapGet(idx, cookie.domain) ELSE <<>>
        pathIndex == IF MapHas(domainIndex, cookie.path)
                     THEN MapGet(domainIndex, cookie.path) ELSE <<>>
    IN  IF MapHas(pathIndex, cookie.key) THEN idx
        ELSE MapSet(idx, cookie.domain,
                    MapSet(domainIndex, cookie.path, MapSet(pathIndex, cookie.key, cookie)))

addCookieToIndex(idx, cookie) ==
    LET domainIndex == IF MapHas(idx, cookie.domain) THEN MapGet(idx, cookie.domain) ELSE <<>>
        pathIndex == IF MapHas(domainIndex, cookie.path)
                     THEN MapGet(domainIndex, cookie.path) ELSE <<>>
    IN  MapSet(idx, cookie.domain,
               MapSet(domainIndex, cookie.path, MapSet(pathIndex, cookie.key, cookie)))

removeCookieFromIndex(idx, domain, path, key) ==
    IF ~MapHas(idx, domain) THEN idx
    ELSE LET domainIndex == MapGet(idx, domain)
         IN  IF ~MapHas(domainIndex, path) THEN idx
             ELSE LET pathIndex == MapDelete(MapGet(domainIndex, path), key)
                      domainIndex2 == IF Len(pathIndex) = 0
                                      THEN MapDelete(domainIndex, path)
                                      ELSE MapSet(domainIndex, path, pathIndex)
                  IN  IF Len(domainIndex2) = 0
                      THEN MapDelete(idx, domain)
                      ELSE MapSet(idx, domain, domainIndex2)

\* if (path): neither omitted, null nor the empty string.
Truthy(s) == s # NoPath /\ s # ""

removeCookiesFromIndex(idx, domain, path) ==
    IF ~MapHas(idx, domain) THEN idx
    ELSE IF Truthy(path)
         THEN LET domainIndex == MapDelete(MapGet(idx, domain), path)
              IN  IF Len(domainIndex) = 0
                  THEN MapDelete(idx, domain)
                  ELSE MapSet(idx, domain, domainIndex)
         ELSE MapDelete(idx, domain)

\* Every cookie of a domain-level map, in enumeration order.
DomainCookies(domainIndex) ==
    Concat([i \in 1..Len(domainIndex) |-> MapValues(domainIndex[i].v)])

AllCookies(idx) == Concat([i \in 1..Len(idx) |-> DomainCookies(idx[i].v)])

\* The comparator, were it to take creation for a number as it stands.
SortsBeforeAsNumber(a, b) == a.creation < b.creation

\* The comparator's time: Infinity for 'Infinity', 0 for no creation.
\* Infinity - Infinity is NaN, which sort treats as 0 (equal).
SortsBefore(a, b) ==
    LET ta == IF a.creation = Null THEN 0 ELSE a.creation
        tb == IF b.creation = Null THEN 0 ELSE b.creation
    IN  IF ta = Infinity THEN FALSE
        ELSE IF tb = Infinity THEN TRUE
        ELSE ta < tb

\* Array.prototype.sort is stable: insert x after every element not after it.
RECURSIVE InsertSorted(_, _)
InsertSorted(s, x) ==
    IF s = <<>> THEN <<x>>
    ELSE IF SortsBefore(x, Head(s)) THEN <<x>> \o s
    ELSE <<Head(s)>> \o InsertSorted(Tail(s), x)

RECURSIVE StableSort(_)
StableSort(s) ==
    IF s = <<>> THEN <<>>
    ELSE InsertSorted(StableSort(SubSeq(s, 1, Len(s) - 1)), s[Len(s)])

getAllCookiesFromIndex(idx) == StableSort(AllCookies(idx))

\* tough-cookie's permuteDomain on the domains of the model: the domain and
\* its parents down to the registrable domain, shortest first.
permuteDomain(domain) ==
    IF domain = WWW THEN <<EXAMPLE, WWW>>
    ELSE IF domain = EXAMPLE THEN <<EXAMPLE>>
    ELSE <<>>

\* tough-cookie's pathMatch(reqPath, cookiePath) on the paths of the model.
pathMatch(reqPath, cookiePath) ==
    \/ cookiePath = reqPath
    \/ cookiePath = "/" /\ reqPath = "/x"

findCookiesInIndex(idx, domain, path) ==
    IF domain = "" THEN <<>>
    ELSE LET domains == IF permuteDomain(domain) = <<>> THEN <<domain>>
                        ELSE permuteDomain(domain)
             OfDomain(curDomain) ==
                 IF ~MapHas(idx, curDomain) THEN <<>>
                 ELSE LET domainIndex == MapGet(idx, curDomain)
                      IN  IF ~Truthy(path) THEN DomainCookies(domainIndex)
                          ELSE Concat([i \in 1..Len(domainIndex) |->
                                        IF pathMatch(path, domainIndex[i].k)
                                        THEN MapValues(domainIndex[i].v) ELSE <<>>])
         IN  Concat([i \in 1..Len(domains) |-> OfDomain(domains[i])])

\* ------------------------------------------------------ the file

\* The backing file: missing, of length 0, text JSON.parse rejects, or a JSON
\* object. A JSON object is a sequence of entries; a value of the two upper
\* levels is an object (obj, with its entries m) or something else.
FileMissing == [kind |-> "missing", tree |-> <<>>]
FileEmpty == [kind |-> "empty", tree |-> <<>>]
FileGarbage == [kind |-> "garbage", tree |-> <<>>]
FileJson(tree) == [kind |-> "json", tree |-> tree]

JsonObject(m) == [obj |-> TRUE, m |-> m]
JsonScalar == [obj |-> FALSE, m |-> <<>>]

serializeCookies(index) ==
    [d \in 1..Len(index) |->
        Entry(index[d].k, JsonObject(
            [p \in 1..Len(index[d].v) |->
                Entry(index[d].v[p].k, JsonObject(
                    [c \in 1..Len(index[d].v[p].v) |->
                        Entry(index[d].v[p].v[c].k,
                              serialize(index[d].v[p].v[c].v))]))]))]

\* The cookie loop, were it to end at the first leaf the serializer gives no
\* cookie for.
RECURSIVE DeserializePathStops(_)
DeserializePathStops(pathData) ==
    IF pathData = <<>> THEN <<>>
    ELSE LET cookie == deserialize(Head(pathData).v)
         IN  IF cookie # <<>>
             THEN <<Entry(Head(pathData).k, cookie[1])>> \o DeserializePathStops(Tail(pathData))
             ELSE <<>>

\* The cookies of one path object: a leaf the serializer gives no cookie for is
\* skipped.
RECURSIVE DeserializePath(_)
DeserializePath(pathData) ==
    IF pathData = <<>> THEN <<>>
    ELSE LET cookie == deserialize(Head(pathData).v)
             rest == DeserializePath(Tail(pathData))
         IN  IF cookie # <<>> THEN <<Entry(Head(pathData).k, cookie[1])>> \o rest
             ELSE rest

\* The paths of one domain object: a value that is not an object is skipped,
\* every object gets a path-level map.
RECURSIVE DeserializeDomain(_)
DeserializeDomain(domainData) ==
    IF domainData = <<>> THEN <<>>
    ELSE LET rest == DeserializeDomain(Tail(domainData))
         IN  IF ~Head(domainData).v.obj THEN rest
             ELSE <<Entry(Head(domainData).k, DeserializePath(Head(domainData).v.m))>>
                  \o rest

RECURSIVE deserializeCookies(_)
deserializeCookies(dataJson) ==
    IF dataJson = <<>> THEN <<>>
    ELSE LET rest == deserializeCookies(Tail(dataJson))
         IN  IF ~Head(dataJson).v.obj THEN rest
             ELSE <<Entry(Head(dataJson).k, DeserializeDomain(Head(dataJson).v.m))>>
                  \o rest

\* What init() and initSync() assign to this.idx for the data they read.
LoadedIndex(f) ==
    IF f.kind = "json" THEN deserializeCookies(f.tree) ELSE EmptyIdx

\* A file a store wrote earlier.
FileGood == FileJson(serializeCookies(addCookieToIndex(EmptyIdx, CookieW)))

\* A hand-edited file: an undecodable leaf beside a good one, and a domain whose
\* value is not an object.
FileMixed ==
    FileJson(<<Entry(EXAMPLE, JsonObject(<<Entry("/", JsonObject(
                   <<Entry("bad", BadData), Entry("k", serialize(CookieA))>>))>>)),
               Entry(WWW, JsonScalar)>>)

\* A file with a domain that has no paths and a path that has no cookies.
FileHollow ==
    FileJson(<<Entry(EXAMPLE, JsonObject(<<>>)),
               Entry(WWW, JsonObject(<<Entry("/", JsonObject(<<>>))>>))>>)

InitialFiles == {FileMissing, FileEmpty, FileGarbage, FileGood, FileMixed, FileHollow}

\* ------------------------------------------------- what callers expect

Triple(c) == <<c.domain, c.path, c.key>>

AllTriples == {<<d, p, k>> : d \in Domains, p \in Paths, k \in Keys}

\* The arguments of a call: the cookie of put and update, the strings of the rest.
Arg(c, d, p, k) == [cookie |-> c, domain |-> d, path |-> p, key |-> k]

NoCookie == Cookie("", "", "", "", Null)
NoArg == Arg(NoCookie, "", "", "")
CookieArg(c) == Arg(c, c.domain, c.path, c.key)

\* The net effect of a series of mutations, as their caller understands them:
\* the cookies last put and not removed since, the triples removed and not
\* put since.
NoEffect == [put |-> {}, gone |-> {}]

EffectRemove(e, ts) ==
    [put |-> {c \in e.put : Triple(c) \notin ts}, gone |-> e.gone \cup ts]

EffectOf(op, arg, e) ==
    CASE op \in {"putCookie", "updateCookie"} ->
             [put |-> {c \in e.put : Triple(c) # Triple(arg.cookie)} \cup {arg.cookie},
              gone |-> e.gone \ {Triple(arg.cookie)}]
      [] op = "removeCookie" ->
             EffectRemove(e, {<<arg.domain, arg.path, arg.key>>} \cap AllTriples)
      [] op = "removeCookies" ->
             EffectRemove(e, {t \in AllTriples : /\ t[1] = arg.domain
                                                 /\ arg.path \in {NoPath, t[2]}})
      [] op = "removeAllCookies" -> EffectRemove(e, AllTriples)
      [] OTHER -> e

\* The leaf of a JSON tree at [domain][path][key]: <<data>>, or <<>>.
TreeLookup(tree, t) ==
    IF ~MapHas(tree, t[1]) THEN <<>>
    ELSE LET d == MapGet(tree, t[1])
         IN  IF ~d.obj \/ ~MapHas(d.m, t[2]) THEN <<>>
             ELSE LET q == MapGet(d.m, t[2])
                  IN  IF ~q.obj \/ ~MapHas(q.m, t[3]) THEN <<>>
                      ELSE <<MapGet(q.m, t[3])>>

\* File content f shows the effect e.
Reflects(f, e) ==
    /\ \A c \in e.put : f.kind = "json" /\ TreeLookup(f.tree, Triple(c)) = <<serialize(c)>>
    /\ \A t \in e.gone : f.kind = "json" => TreeLookup(f.tree, t) = <<>>

\* ------------------------------------------------------------ state

VARIABLES
    ctor,             \* "none" before the constructor ran, then "direct" or "worker"
    filePathOpt,      \* options.filePath as the caller gave it
    filePath,         \* this.filePath
    file,             \* the content of the file at this.filePath
    idx,              \* this.idx (in worker mode: of the store inside the worker)
    isInitialized,    \* this.isInitialized (likewise)
    writePending,     \* this.writePending (likewise)
    debounceTimeout,  \* this.debounceTimeout: the handle, and whether its timer is
                      \* still to fire, in how many ticks
    reads,            \* calls of init() suspended in readFile, each with the
                      \* operation that awaits it
    writes,           \* calls of saveToFile() suspended in mkdir or writeFile
    last,             \* the public call that completed last, and its outcome
    ops,              \* public calls made so far
    burst,            \* the mutations since the scheduler was last clean: their
                      \* net effect, the ticks since the first and since the last
    pendingPromises,  \* this.pendingPromises of the bridge: id -> the awaiting call
    messageIdCounter, \* this.messageIdCounter of the bridge
    toWorker,         \* messages posted to the worker and not yet dispatched
    toMain,           \* messages posted by the worker and not yet dispatched
    workerAlive,      \* the worker thread is running
    exiting,          \* the bridge's process was told to exit
    sent,             \* the ids of the requests posted so far, in order
    handled,          \* the ids of the responses the bridge has dispatched
    bridgeIdx,        \* this.idx of the bridge
    bridgeInitialized,\* this.isInitialized of the bridge
    bridgeReads,      \* calls of the bridge's init() suspended in readFile
    flushedEmitted    \* 'flushed' events the bridge has emitted

engineVars == <<idx, isInitialized, writePending, debounceTimeout, reads, writes>>
ctorVars == <<ctor, filePathOpt, filePath>>
\* The fields of the store the bridge is itself.
bridgeStore == <<bridgeIdx, bridgeInitialized, bridgeReads>>
bridgeVars ==
    <<pendingPromises, messageIdCounter, toWorker, workerAlive, exiting, sent, handled,
      bridgeStore, flushedEmitted>>
vars == <<ctorVars, file, engineVars, last, ops, burst, bridgeVars, toMain>>

DefaultPath == "cookies.json"
GivenPath == "store.json"

NoTimeout == [handle |-> FALSE, armed |-> FALSE, left |-> 0]

NoCall == [op |-> "none", arg |-> NoArg, res |-> <<>>, err |-> ""]

NoBurst == [open |-> FALSE, first |-> 0, latest |-> 0, eff |-> NoEffect]

\* Who awaits a step of the store: the caller of a public method, the
\* constructor (which awaits nothing), the timer's callback, or the worker's
\* handler of the request with an id.
ByCaller == [who |-> "caller", id |-> 0]
ByCtor == [who |-> "ctor", id |-> 0]
ByTimer == [who |-> "timer", id |-> 0]
ByMessage(id) == [who |-> "message", id |-> id]

Init ==
    /\ ctor = "none"
    /\ filePathOpt = ""
    /\ filePath = ""
    /\ file = FileMissing
    /\ idx = EmptyIdx
    /\ isInitialized = FALSE
    /\ writePending = FALSE
    /\ debounceTimeout = NoTimeout
    /\ reads = <<>>
    /\ writes = <<>>
    /\ last = NoCall
    /\ ops = 0
    /\ burst = NoBurst
    /\ pendingPromises = <<>>
    /\ messageIdCounter = 0
    /\ toWorker = <<>>
    /\ toMain = <<>>
    /\ workerAlive = FALSE
    /\ exiting = FALSE
    /\ sent = <<>>
    /\ handled = {}
    /\ bridgeIdx = EmptyIdx
    /\ bridgeInitialized = FALSE
    /\ bridgeReads = 0
    /\ flushedEmitted = 0

\* The store that owns the file is running: the store itself in direct mode,
\* the store inside the worker in worker mode.
Running == ctor = "direct" \/ (ctor = "worker" /\ workerAlive)

\* -------------------------------------------------- the scheduler

\* scheduleSaveToFile(), were it to leave the timer alone when it marks the
\* scheduler pending while a timer was set before.
scheduleSaveToFileOnce(pending, timeout) ==
    IF pending THEN [writePending |-> pending, debounceTimeout |-> timeout]
    ELSE [writePending |-> TRUE,
          debounceTimeout |-> IF timeout.handle THEN timeout
                              ELSE [handle |-> TRUE, armed |-> TRUE, left |-> DebounceDelay]]

\* scheduleSaveToFile(): nothing when a write is pending; else the scheduler
\* becomes pending and a timer of debounceDelay is armed.
scheduleSaveToFile(pending, timeout) ==
    IF pending THEN [writePending |-> pending, debounceTimeout |-> timeout]
    ELSE [writePending |-> TRUE,
          debounceTimeout |-> [handle |-> TRUE, armed |-> TRUE, left |-> DebounceDelay]]

\* A call of saveToFile(), suspended: the snapshot it took, where it is, who
\* awaits it and what the mutations since the scheduler was last clean amount
\* to.
SaveTask(by) ==
    [data |-> serializeCookies(idx), stage |-> "mkdir", by |-> by, view |-> burst.eff]

\* ------------------------------------------- the operations' bodies

Outcome(i, res, err, dirty) == [idx |-> i, res |-> res, err |-> err, dirty |-> dirty]

\* The arguments of update: the new cookie, and the triple of the old one.
UpdateArg(oldCookie, newCookie) ==
    Arg(newCookie, oldCookie.domain, oldCookie.path, oldCookie.key)

\* update, were it to take the old cookie out before it puts the new one.
updateCookieMoves(oldTriple, newCookie, i) ==
    addCookieToIndex(removeCookieFromIndex(i, oldTriple[1], oldTriple[2], oldTriple[3]),
                     newCookie)

\* updateCookie(_oldCookie, newCookie) and updateCookieSync: the put of
\* newCookie; _oldCookie is not read.
updateCookie(oldTriple, newCookie, i) == addCookieToIndex(i, newCookie)

\* What an asynchronous method does once init() has returned.
asyncBody(op, arg, i) ==
    CASE op = "findCookie" ->
             Outcome(i, findCookieInIndex(i, arg.domain, arg.path, arg.key), "", FALSE)
      [] op = "findCookies" ->
             Outcome(i, findCookiesInIndex(i, arg.domain, arg.path), "", FALSE)
      [] op = "putCookie" -> Outcome(addCookieToIndex(i, arg.cookie), <<>>, "", TRUE)
      [] op = "updateCookie" ->
             Outcome(updateCookie(<<arg.domain, arg.path, arg.key>>, arg.cookie, i),
                     <<>>, "", TRUE)
      [] op = "removeCookie" ->
             Outcome(removeCookieFromIndex(i, arg.domain, arg.path, arg.key), <<>>, "", TRUE)
      [] op = "removeCookies" ->
             Outcome(removeCookiesFromIndex(i, arg.domain, arg.path), <<>>, "", TRUE)
      [] op = "removeAllCookies" -> Outcome(EmptyIdx, <<>>, "", TRUE)
      [] op = "getAllCookies" -> Outcome(i, getAllCookiesFromIndex(i), "", FALSE)
      [] OTHER -> Outcome(i, <<>>, "", FALSE)

\* What a synchronous method does once initSync() has returned.
\* findCookiesSync calls itself: the stack overflows.
syncBody(op, arg, i) ==
    CASE op = "findCookie" ->
             Outcome(i, findCookieInIndex(i, arg.domain, arg.path, arg.key), "", FALSE)
      [] op = "findCookies" -> Outcome(i, <<>>, "RangeError", FALSE)
      [] op = "putCookie" -> Outcome(addCookieToIndex(i, arg.cookie), <<>>, "", TRUE)
      [] op = "updateCookie" ->
             Outcome(updateCookie(<<arg.domain, arg.path, arg.key>>, arg.cookie, i),
                     <<>>, "", TRUE)
      [] op = "removeCookie" ->
             Outcome(removeCookieFromIndex(i, arg.domain, arg.path, arg.key), <<>>, "", TRUE)
      [] op = "removeCookies" ->
             Outcome(removeCookiesFromIndex(i, arg.domain, arg.path), <<>>, "", TRUE)
      [] op = "removeAllCookies" -> Outcome(EmptyIdx, <<>>, "", TRUE)
      [] op = "getAllCookies" -> Outcome(i, getAllCookiesFromIndex(i), "", FALSE)
      [] OTHER -> Outcome(i, <<>>, "", FALSE)

\* result.map(serialize) and result.map(deserialize) on the two sides of the
\* worker's port.
SerializeAll(res) == [i \in 1..Len(res) |-> serialize(res[i])]
DeserializeAll(result) == Concat([i \in 1..Len(result) |-> deserialize(result[i])])

\* The response, were a failure to be posted without the id of its request.
ResponseLosesId(id, result, error) ==
    [type |-> "response", id |-> IF error = "" THEN id ELSE 0,
     result |-> result, error |-> error]

Response(id, result, error) ==
    [type |-> "response", id |-> id, result |-> result, error |-> error]

FlushedEvent == [type |-> "event", id |-> 0, result |-> <<>>, error |-> ""]

\* The handler of the worker, were it to post the 'flushed' event after the
\* response.
DeliverEventLast(by, op, arg, res, err) ==
    IF by.who = "caller"
    THEN /\ last' = [op |-> op, arg |-> arg, res |-> res, err |-> err]
         /\ UNCHANGED toMain
    ELSE IF by.who = "message"
    THEN /\ toMain' = toMain
                      \o <<Response(by.id, SerializeAll(res), err)>>
                      \o (IF op = "flushData" /\ err = "" THEN <<FlushedEvent>> ELSE <<>>)
         /\ UNCHANGED last
    ELSE UNCHANGED <<last, toMain>>

\* The result reaches whoever awaited the call: the caller; or the worker's
\* handler, which posts the 'flushed' event after a flushData() that returned
\* normally, and then the response.
Deliver(by, op, arg, res, err) ==
    IF by.who = "caller"
    THEN /\ last' = [op |-> op, arg |-> arg, res |-> res, err |-> err]
         /\ UNCHANGED toMain
    ELSE IF by.who = "message"
    THEN /\ toMain' = toMain
                      \o (IF op = "flushData" /\ err = "" THEN <<FlushedEvent>> ELSE <<>>)
                      \o <<Response(by.id, SerializeAll(res), err)>>
         /\ UNCHANGED last
    ELSE UNCHANGED <<last, toMain>>

\* The rest of a method, were a mutation to call scheduleSaveToFile() only
\* when it has changed the index.
RunSchedulesOnChange(form, op, arg, i) ==
    LET b == IF form = "sync" THEN syncBody(op, arg, i) ELSE asyncBody(op, arg, i)
        s == IF b.dirty /\ b.idx # i THEN scheduleSaveToFile(writePending, debounceTimeout)
             ELSE [writePending |-> writePending, debounceTimeout |-> debounceTimeout]
    IN  [idx |-> b.idx, res |-> b.res, err |-> b.err, dirty |-> b.dirty,
         writePending |-> s.writePending, debounceTimeout |-> s.debounceTimeout]

\* The rest of a method after initialization, on the index i that
\* initialization left: the body, then scheduleSaveToFile() of a mutation.
Run(form, op, arg, i) ==
    LET b == IF form = "sync" THEN syncBody(op, arg, i) ELSE asyncBody(op, arg, i)
        s == IF b.dirty THEN scheduleSaveToFile(writePending, debounceTimeout)
             ELSE [writePending |-> writePending, debounceTimeout |-> debounceTimeout]
    IN  [idx |-> b.idx, res |-> b.res, err |-> b.err, dirty |-> b.dirty,
         writePending |-> s.writePending, debounceTimeout |-> s.debounceTimeout]

Finish(by, op, form, arg, i) ==
    LET r == Run(form, op, arg, i)
    IN  /\ idx' = r.idx
        /\ isInitialized' = TRUE
        /\ writePending' = r.writePending
        /\ debounceTimeout' = r.debounceTimeout
        /\ burst' = IF ~r.dirty THEN burst
                    ELSE [open |-> TRUE,
                          first |-> IF burst.open THEN burst.first ELSE 0,
                          latest |-> 0,
                          eff |-> EffectOf(op, arg, burst.eff)]
        /\ Deliver(by, op, arg, r.res, r.err)

\* A method called now and run to its end with nothing in between: what it
\* returns and how it leaves the index and the scheduler.
SyncOutcome(op, arg) ==
    Run("sync", op, arg, IF isInitialized THEN idx ELSE LoadedIndex(file))

AsyncOutcome(op, arg) ==
    Run("async", op, arg, IF isInitialized THEN idx ELSE LoadedIndex(file))

\* An asynchronous method, from its call: init() returns at once when the
\* store is initialized, assigns an empty index without suspending when the
\* file does not exist, and suspends in readFile otherwise.
AsyncMethod(by, op, arg) ==
    IF isInitialized
    THEN /\ Finish(by, op, "async", arg, idx)
         /\ UNCHANGED reads
    ELSE IF file.kind = "missing"
    THEN /\ Finish(by, op, "async", arg, EmptyIdx)
         /\ UNCHANGED reads
    ELSE /\ reads' = Append(reads, [by |-> by, op |-> op, arg |-> arg])
         /\ UNCHANGED <<idx, isInitialized, writePending, debounceTimeout, last, toMain,
                        burst>>

\* A synchronous method: initSync() loads the file unless the store is
\* initialized.
SyncMethod(op, arg) ==
    /\ Finish(ByCaller, op, "sync", arg,
              IF isInitialized THEN idx ELSE LoadedIndex(file))
    /\ UNCHANGED reads

AsyncCall(op, arg) ==
    /\ ctor = "direct"
    /\ ops < MaxOps
    /\ ops' = ops + 1
    /\ AsyncMethod(ByCaller, op, arg)
    /\ UNCHANGED <<ctorVars, file, writes, bridgeVars>>

SyncCall(op, arg) ==
    /\ ctor = "direct"
    /\ ops < MaxOps
    /\ ops' = ops + 1
    /\ SyncMethod(op, arg)
    /\ UNCHANGED <<ctorVars, file, writes, bridgeVars>>

\* -------------------------------------------------- the constructor

\* The constructor of the store that owns the file starts init() and does not
\* await it: init() is done at once when the file does not exist, and suspends
\* in readFile otherwise.
StartInit(content) ==
    /\ file' = content
    /\ IF content.kind = "missing"
       THEN /\ idx' = EmptyIdx
            /\ isInitialized' = TRUE
            /\ UNCHANGED reads
       ELSE /\ reads' = Append(reads, [by |-> ByCtor, op |-> "init", arg |-> NoArg])
            /\ UNCHANGED <<idx, isInitialized>>

\* new FileCookieStorage({filePath, useWorker: false}): an empty filePath
\* falls back to cookies.json.
Constructor(path, content) ==
    /\ ctor = "none"
    /\ ctor' = "direct"
    /\ filePathOpt' = path
    /\ filePath' = IF path = "" THEN DefaultPath ELSE path
    /\ StartInit(content)
    /\ UNCHANGED <<writePending, debounceTimeout, writes, last, ops, burst, bridgeVars,
                   toMain>>

\* The file at the default path does not exist; the file at a given path holds
\* any of the initial contents.
ConstructDirect ==
    \/ Constructor("", FileMissing)
    \/ \E content \in InitialFiles : Constructor(GivenPath, content)

\* ------------------------------------------------ the public methods

PoolTriples == {Triple(c) : c \in CookiePool}

TripleArg(t) == Arg(NoCookie, t[1], t[2], t[3])

\* A domain with a path, or with the path omitted.
DomainPathArgs == {Arg(NoCookie, d, p, "") : d \in Domains, p \in Paths \cup {NoPath}}

FindCookie == \E t \in PoolTriples : AsyncCall("findCookie", TripleArg(t))
FindCookies == \E a \in DomainPathArgs : AsyncCall("findCookies", a)
PutCookie == \E c \in CookiePool : AsyncCall("putCookie", CookieArg(c))
UpdateCookie == \E old, c \in CookiePool : AsyncCall("updateCookie", UpdateArg(old, c))
RemoveCookie == \E t \in PoolTriples : AsyncCall("removeCookie", TripleArg(t))
RemoveCookies == \E a \in DomainPathArgs : AsyncCall("removeCookies", a)
RemoveAllCookies == AsyncCall("removeAllCookies", NoArg)
GetAllCookies == AsyncCall("getAllCookies", NoArg)
InitCall == AsyncCall("init", NoArg)

FindCookieSync == \E t \in PoolTriples : SyncCall("findCookie", TripleArg(t))
FindCookiesSync == \E a \in DomainPathArgs : SyncCall("findCookies", a)
PutCookieSync == \E c \in CookiePool : SyncCall("putCookie", CookieArg(c))
UpdateCookieSync ==
    \E old, c \in CookiePool : SyncCall("updateCookie", UpdateArg(old, c))
RemoveCookieSync == \E t \in PoolTriples : SyncCall("removeCookie", TripleArg(t))
RemoveCookiesSync == \E a \in DomainPathArgs : SyncCall("removeCookies", a)
RemoveAllCookiesSync == SyncCall("removeAllCookies", NoArg)
GetAllCookiesSync == SyncCall("getAllCookies", NoArg)
InitSync == SyncCall("init", NoArg)

Remove(s, i) == SubSeq(s, 1, i - 1) \o SubSeq(s, i + 1, Len(s))

\* A readFile completes, in any order: init() assigns the index it read,
\* whatever the store holds by now, and the operation that awaited it goes on.
ReadFileDone ==
    /\ Running
    /\ \E i \in 1..Len(reads) :
        /\ reads' = Remove(reads, i)
        /\ Finish(reads[i].by, reads[i].op, "async", reads[i].arg, LoadedIndex(file))
        /\ UNCHANGED <<ctorVars, file, writes, ops, bridgeVars>>

\* ------------------------------------------------------ time, saving

\* A tick of the clock while the timer is armed; the timer fires when its
\* delay has run out, not later.
Tick ==
    /\ Running
    /\ debounceTimeout.armed
    /\ debounceTimeout.left > 0
    /\ debounceTimeout' = [debounceTimeout EXCEPT !.left = @ - 1]
    /\ burst' = IF burst.open
                THEN [burst EXCEPT !.first = @ + 1, !.latest = @ + 1] ELSE burst
    /\ UNCHANGED <<ctorVars, file, idx, isInitialized, writePending, reads, writes,
                   last, ops, bridgeVars, toMain>>

\* The timer's callback: saveToFile() clears writePending, takes the snapshot
\* and suspends in mkdir.
TimerFire ==
    /\ Running
    /\ debounceTimeout.armed
    /\ debounceTimeout.left = 0
    /\ debounceTimeout' = [debounceTimeout EXCEPT !.armed = FALSE]
    /\ writePending' = FALSE
    /\ writes' = Append(writes, SaveTask(ByTimer))
    /\ burst' = NoBurst
    /\ UNCHANGED <<ctorVars, file, idx, isInitialized, reads, last, ops, bridgeVars,
                   toMain>>

\* flushData(): with a write pending, the timer is cleared and saveToFile() is
\* awaited; else it returns at once.
flushData(by) ==
    IF writePending
    THEN /\ debounceTimeout' = IF debounceTimeout.handle THEN NoTimeout
                               ELSE debounceTimeout
         /\ writePending' = FALSE
         /\ writes' = Append(writes, SaveTask(by))
         /\ burst' = NoBurst
         /\ UNCHANGED <<last, toMain>>
    ELSE /\ Deliver(by, "flushData", NoArg, <<>>, "")
         /\ UNCHANGED <<debounceTimeout, writePending, writes, burst>>

FlushData ==
    /\ ctor = "direct"
    /\ ops < MaxOps
    /\ ops' = ops + 1
    /\ flushData(ByCaller)
    /\ UNCHANGED <<ctorVars, file, idx, isInitialized, reads, bridgeVars>>

\* saveToFile() ends, and the flushData() that awaited it.
SaveEnds(task, err) ==
    IF task.by.who = "timer"
    THEN UNCHANGED <<last, toMain>>
    ELSE Deliver(task.by, "flushData", NoArg, <<>>, err)

MkdirDone ==
    /\ Running
    /\ \E i \in 1..Len(writes) :
        /\ writes[i].stage = "mkdir"
        /\ writes' = [writes EXCEPT ![i].stage = "write"]
        /\ UNCHANGED <<ctorVars, file, idx, isInitialized, writePending,
                       debounceTimeout, reads, last, ops, burst, bridgeVars, toMain>>

\* mkdir is outside the try: saveToFile() rejects.
MkdirFail ==
    /\ Running
    /\ \E i \in 1..Len(writes) :
        /\ writes[i].stage = "mkdir"
        /\ writes' = Remove(writes, i)
        /\ SaveEnds(writes[i], "mkdir")
        /\ UNCHANGED <<ctorVars, file, idx, isInitialized, writePending,
                       debounceTimeout, reads, ops, burst, bridgeVars>>

\* writeFile replaces the content of the file.
WriteFileDone ==
    /\ Running
    /\ \E i \in 1..Len(writes) :
        /\ writes[i].stage = "write"
        /\ writes' = Remove(writes, i)
        /\ file' = FileJson(writes[i].data)
        /\ SaveEnds(writes[i], "")
        /\ UNCHANGED <<ctorVars, idx, isInitialized, writePending, debounceTimeout,
                       reads, ops, burst, bridgeVars>>

\* A failure of writeFile, were the catch to mark the scheduler pending again
\* and arm a timer for another attempt.
WriteFileFailRetries ==
    /\ Running
    /\ \E i \in 1..Len(writes) :
        /\ writes[i].stage = "write"
        /\ writes' = Remove(writes, i)
        /\ SaveEnds(writes[i], "")
        /\ writePending' = TRUE
        /\ debounceTimeout' = [handle |-> TRUE, armed |-> TRUE, left |-> DebounceDelay]
        /\ UNCHANGED <<ctorVars, file, idx, isInitialized, reads, ops, burst, bridgeVars>>

\* A failure of writeFile is caught and logged: saveToFile() returns normally.
WriteFileFail ==
    /\ Running
    /\ \E i \in 1..Len(writes) :
        /\ writes[i].stage = "write"
        /\ writes' = Remove(writes, i)
        /\ SaveEnds(writes[i], "")
        /\ UNCHANGED <<ctorVars, file, idx, isInitialized, writePending,
                       debounceTimeout, reads, ops, burst, bridgeVars>>

\* ------------------------------------------------------ worker mode

\* The store the caller holds is a bridge: its asynchronous methods post a
\* request to the worker and await the response; the store that owns the file
\* is constructed inside the worker in direct mode.

\* The files a worker-backed store is opened on.
WorkerFiles == {FileMissing, FileGood}

\* new FileCookieStorage({filePath, useWorker: true}): startWorker(); the
\* worker constructs its store before it dispatches any message.
ConstructWorker ==
    \E content \in WorkerFiles :
        /\ ctor = "none"
        /\ ctor' = "worker"
        /\ filePathOpt' = GivenPath
        /\ filePath' = GivenPath
        /\ workerAlive' = TRUE
        /\ StartInit(content)
        /\ UNCHANGED <<writePending, debounceTimeout, writes, last, ops, burst,
                       pendingPromises, messageIdCounter, toWorker, exiting, sent,
                       handled, toMain, bridgeStore, flushedEmitted>>

\* const id = this.messageIdCounter++
NextId(counter) == counter + 1

\* The payload of a request: the cookie serialized, the strings as they are.
Payload(arg) ==
    [cookie |-> IF arg.cookie = NoCookie THEN BadData ELSE serialize(arg.cookie),
     domain |-> arg.domain, path |-> arg.path, key |-> arg.key]

\* sendWorkerMessage(type, data) in the method op called with arg, on the
\* pending map as it is by then.
sendWorkerMessage(op, type, arg, pending) ==
    /\ messageIdCounter' = NextId(messageIdCounter)
    /\ pendingPromises' = MapSet(pending, messageIdCounter, [op |-> op, arg |-> arg])
    /\ toWorker' = Append(toWorker, [type |-> type, id |-> messageIdCounter,
                                     data |-> Payload(arg)])
    /\ sent' = Append(sent, messageIdCounter)

\* An asynchronous method of the bridge.
BridgeCall(op, type, arg) ==
    /\ ctor = "worker"
    /\ messageIdCounter < MaxMsgs
    /\ sendWorkerMessage(op, type, arg, pendingPromises)
    /\ UNCHANGED <<ctorVars, file, engineVars, last, ops, burst, workerAlive, exiting,
                   handled, toMain, bridgeStore, flushedEmitted>>

\* The arguments of the bridge's callers.
BridgeCookie == CookieA
BridgeTriple == TripleArg(Triple(BridgeCookie))
BridgeDomain == Arg(NoCookie, BridgeCookie.domain, NoPath, "")

BridgeFindCookie == BridgeCall("findCookie", "findCookie", BridgeTriple)
BridgeFindCookies == BridgeCall("findCookies", "findCookies", BridgeDomain)
BridgePutCookie == BridgeCall("putCookie", "putCookie", CookieArg(BridgeCookie))
BridgeUpdateCookie == BridgeCall("updateCookie", "putCookie", CookieArg(BridgeCookie))
BridgeRemoveCookie == BridgeCall("removeCookie", "removeCookie", BridgeTriple)
BridgeRemoveCookies == BridgeCall("removeCookies", "removeCookies", BridgeDomain)
BridgeRemoveAllCookies == BridgeCall("removeAllCookies", "removeAllCookies", NoArg)
BridgeGetAllCookies == BridgeCall("getAllCookies", "getAllCookies", NoArg)

\* this.writePending of the bridge: false from construction, and set by
\* scheduleSaveToFile alone, which an asynchronous method of a bridge returns
\* before.
bridgeWritePending == FALSE

\* flushData() of the bridge: with a write pending on the bridge a 'save'
\* request is posted and awaited; else it returns at once and posts nothing.
BridgeFlushData ==
    /\ ctor = "worker"
    /\ IF bridgeWritePending
       THEN /\ messageIdCounter < MaxMsgs
            /\ sendWorkerMessage("flushData", "save", NoArg, pendingPromises)
            /\ UNCHANGED <<last, toMain>>
       ELSE /\ Deliver(ByCaller, "flushData", NoArg, <<>>, "")
            /\ UNCHANGED <<pendingPromises, messageIdCounter, toWorker, sent>>
    /\ UNCHANGED <<ctorVars, file, engineVars, ops, burst, workerAlive, exiting, handled,
                   bridgeStore, flushedEmitted>>

\* init() called on the bridge: it has no useWorker branch, and runs on the
\* bridge's own fields as on any store's: it returns at once when the bridge is
\* initialized, assigns an empty index without suspending when the file does
\* not exist, and suspends in readFile otherwise.
BridgeInit ==
    /\ ctor = "worker"
    /\ ops < MaxOps
    /\ ops' = ops + 1
    /\ IF bridgeInitialized
       THEN /\ Deliver(ByCaller, "init", NoArg, <<>>, "")
            /\ UNCHANGED bridgeStore
       ELSE IF file.kind = "missing"
       THEN /\ bridgeIdx' = EmptyIdx
            /\ bridgeInitialized' = TRUE
            /\ Deliver(ByCaller, "init", NoArg, <<>>, "")
            /\ UNCHANGED bridgeReads
       ELSE /\ bridgeReads' = bridgeReads + 1
            /\ UNCHANGED <<bridgeIdx, bridgeInitialized, last, toMain>>
    /\ UNCHANGED <<ctorVars, file, engineVars, burst, pendingPromises, messageIdCounter,
                   toWorker, workerAlive, exiting, sent, handled, flushedEmitted>>

\* A readFile of the bridge completes: its init() assigns the index it read to
\* the bridge's own idx.
BridgeReadFileDone ==
    /\ ctor = "worker"
    /\ bridgeReads > 0
    /\ bridgeReads' = bridgeReads - 1
    /\ bridgeIdx' = LoadedIndex(file)
    /\ bridgeInitialized' = TRUE
    /\ Deliver(ByCaller, "init", NoArg, <<>>, "")
    /\ UNCHANGED <<ctorVars, file, engineVars, ops, burst, pendingPromises,
                   messageIdCounter, toWorker, workerAlive, exiting, sent, handled,
                   flushedEmitted>>

\* SIGINT, SIGTERM or an uncaught exception: the exit handler posts a 'flush'
\* request, and exits the process when it is answered.
ExitHandler ==
    /\ ctor = "worker"
    /\ ~exiting
    /\ messageIdCounter < MaxMsgs
    /\ exiting' = TRUE
    /\ sendWorkerMessage("exit", "flush", NoArg, pendingPromises)
    /\ UNCHANGED <<ctorVars, file, engineVars, last, ops, burst, workerAlive, handled,
                   toMain, bridgeStore, flushedEmitted>>

StorageTypes ==
    {"findCookie", "findCookies", "removeCookie", "removeCookies", "removeAllCookies",
     "getAllCookies"}

\* parentPort.on('message'): the handler calls the store's method and posts the
\* response when the method has returned; an undecodable cookie is not put; an
\* unknown type is answered with an error.
WorkerReceive ==
    /\ ctor = "worker"
    /\ workerAlive
    /\ toWorker # <<>>
    /\ toWorker' = Tail(toWorker)
    /\ LET m == Head(toWorker)
           by == ByMessage(m.id)
           cookie == deserialize(m.data.cookie)
       IN  IF m.type \in StorageTypes
           THEN /\ AsyncMethod(by, m.type,
                               Arg(NoCookie, m.data.domain, m.data.path, m.data.key))
                /\ UNCHANGED writes
           ELSE IF m.type = "putCookie" /\ cookie # <<>>
           THEN /\ AsyncMethod(by, "putCookie", CookieArg(cookie[1]))
                /\ UNCHANGED writes
           ELSE IF m.type = "putCookie"
           THEN /\ Deliver(by, "putCookie", NoArg, <<>>, "")
                /\ UNCHANGED engineVars
                /\ UNCHANGED burst
           ELSE IF m.type \in {"save", "flush"}
           THEN /\ flushData(by)
                /\ UNCHANGED <<idx, isInitialized, reads>>
           ELSE /\ Deliver(by, m.type, NoArg, <<>>, "Unknown message type")
                /\ UNCHANGED engineVars
                /\ UNCHANGED burst
    /\ UNCHANGED <<ctorVars, file, ops, pendingPromises, messageIdCounter, workerAlive,
                   exiting, sent, handled, bridgeStore, flushedEmitted>>

\* handleWorkerMessage without its pendingPromises.delete(id).
handleWorkerMessageKeeps(message, pending) == pending

\* handleWorkerMessage(message) on the pending map: a response whose id is
\* registered settles that completion and deletes it; anything else leaves the
\* map alone.
Settles(message, pending) == message.type = "response" /\ MapHas(pending, message.id)

handleWorkerMessage(message, pending) ==
    IF Settles(message, pending) THEN MapDelete(pending, message.id) ELSE pending

\* worker.on('message'): the completion registered under the id is resolved
\* with the result, or rejected with the error, and the method that awaited it
\* deserializes what it got; a 'flushed' event is emitted on the bridge. The exit handler, answered, calls process.exit():
\* the 'exit' event runs the handler once more, which posts a last 'flush'
\* request, and the process ends, and the worker with it.
HandleWorkerMessage ==
    /\ ctor = "worker"
    /\ toMain # <<>>
    /\ toMain' = Tail(toMain)
    /\ LET m == Head(toMain)
           exits == Settles(m, pendingPromises) /\ MapGet(pendingPromises, m.id).op = "exit"
       IN  /\ handled' = IF m.type = "response" THEN handled \cup {m.id} ELSE handled
           /\ flushedEmitted' = IF m.type = "event" THEN flushedEmitted + 1
                                 ELSE flushedEmitted
           /\ last' = IF Settles(m, pendingPromises) /\ ~exits
                      THEN [op |-> MapGet(pendingPromises, m.id).op,
                            arg |-> MapGet(pendingPromises, m.id).arg,
                            res |-> DeserializeAll(m.result),
                            err |-> m.error]
                      ELSE last
           /\ IF exits
              THEN /\ sendWorkerMessage("exit", "flush", NoArg,
                                        handleWorkerMessage(m, pendingPromises))
                   /\ ctor' = "exited"
                   /\ workerAlive' = FALSE
              ELSE /\ pendingPromises' = handleWorkerMessage(m, pendingPromises)
                   /\ UNCHANGED <<ctor, workerAlive, messageIdCounter, toWorker, sent>>
    /\ UNCHANGED <<filePathOpt, filePath, file, engineVars, ops, burst, exiting,
                   bridgeStore>>

\* The worker stops, were the bridge's 'exit' listener to reject every pending
\* completion and clear the map.
WorkerExitRejects ==
    /\ ctor = "worker"
    /\ workerAlive
    /\ workerAlive' = FALSE
    /\ pendingPromises' = <<>>
    /\ handled' = handled \cup MapKeys(pendingPromises)
    /\ UNCHANGED <<ctorVars, file, engineVars, last, ops, burst, messageIdCounter,
                   toWorker, exiting, sent, toMain, bridgeStore, flushedEmitted>>

\* The worker stops: what it has not dispatched is never handled.
WorkerExit ==
    /\ ctor = "worker"
    /\ workerAlive
    /\ workerAlive' = FALSE
    /\ UNCHANGED <<ctorVars, file, engineVars, last, ops, burst, pendingPromises,
                   messageIdCounter, toWorker, exiting, sent, handled, toMain,
                   bridgeStore, flushedEmitted>>

\* ------------------------------------------------- specifications

Next ==
    \/ ConstructDirect
    \/ FindCookie \/ FindCookies \/ PutCookie \/ UpdateCookie
    \/ RemoveCookie \/ RemoveCookies \/ RemoveAllCookies \/ GetAllCookies
    \/ InitCall
    \/ FindCookieSync \/ FindCookiesSync \/ PutCookieSync \/ UpdateCookieSync
    \/ RemoveCookieSync \/ RemoveCookiesSync \/ RemoveAllCookiesSync
    \/ GetAllCookiesSync \/ InitSync
    \/ FlushData
    \/ ReadFileDone
    \/ Tick \/ TimerFire
    \/ MkdirDone \/ MkdirFail \/ WriteFileDone \/ WriteFileFail

\* A store in direct mode.
Spec == Init /\ [][Next]_vars

NextWorker ==
    \/ ConstructWorker
    \/ BridgeFindCookie \/ BridgeFindCookies \/ BridgePutCookie \/ BridgeUpdateCookie
    \/ BridgeRemoveCookie \/ BridgeRemoveCookies \/ BridgeRemoveAllCookies
    \/ BridgeGetAllCookies
    \/ BridgeFlushData
    \/ ExitHandler
    \/ WorkerReceive
    \/ HandleWorkerMessage
    \/ WorkerExit
    \/ ReadFileDone
    \/ Tick \/ TimerFire
    \/ MkdirDone \/ MkdirFail \/ WriteFileDone \/ WriteFileFail

\* A store in worker mode whose caller also calls init() on it, and whose
\* process is not told to exit.
NextBridge ==
    \/ ConstructWorker
    \/ BridgeInit
    \/ BridgeReadFileDone
    \/ BridgeFindCookie \/ BridgeFindCookies \/ BridgePutCookie \/ BridgeUpdateCookie
    \/ BridgeRemoveCookie \/ BridgeRemoveCookies \/ BridgeRemoveAllCookies
    \/ BridgeGetAllCookies
    \/ BridgeFlushData
    \/ WorkerReceive
    \/ HandleWorkerMessage
    \/ ReadFileDone
    \/ Tick \/ TimerFire
    \/ MkdirDone \/ MkdirFail \/ WriteFileDone \/ WriteFileFail

SpecBridge == Init /\ [][NextBridge]_vars

\* A store in direct mode whose clock runs and whose timers fire when they are
\* due.
SpecTimer == Init /\ [][Next]_vars /\ WF_vars(Tick) /\ WF_vars(TimerFire)

\* The files a store left behind: none, or one a store wrote.
WellFormedFiles == {FileMissing, FileGood}

ConstructOnWellFormed == \E content \in WellFormedFiles : Constructor(GivenPath, content)

\* A store in direct mode on a missing or well-formed file, none of whose
\* mkdir and writeFile calls fails.
NextDurable ==
    \/ ConstructOnWellFormed
    \/ FindCookie \/ FindCookies \/ PutCookie \/ UpdateCookie
    \/ RemoveCookie \/ RemoveCookies \/ RemoveAllCookies \/ GetAllCookies
    \/ InitCall
    \/ FindCookieSync \/ FindCookiesSync \/ PutCookieSync \/ UpdateCookieSync
    \/ RemoveCookieSync \/ RemoveCookiesSync \/ RemoveAllCookiesSync
    \/ GetAllCookiesSync \/ InitSync
    \/ FlushData
    \/ ReadFileDone
    \/ Tick \/ TimerFire
    \/ MkdirDone \/ WriteFileDone

SpecDurable == Init /\ [][NextDurable]_vars

\* The same store with a caller who never calls flushData().
NextUnflushed ==
    \/ ConstructOnWellFormed
    \/ FindCookie \/ FindCookies \/ PutCookie \/ UpdateCookie
    \/ RemoveCookie \/ RemoveCookies \/ RemoveAllCookies \/ GetAllCookies
    \/ InitCall
    \/ FindCookieSync \/ FindCookiesSync \/ PutCookieSync \/ UpdateCookieSync
    \/ RemoveCookieSync \/ RemoveCookiesSync \/ RemoveAllCookiesSync
    \/ GetAllCookiesSync \/ InitSync
    \/ ReadFileDone
    \/ Tick \/ TimerFire
    \/ MkdirDone \/ WriteFileDone

\* The completion of a file operation that does not fail.
FileOps == ReadFileDone \/ MkdirDone \/ WriteFileDone

\* ENABLED <<FileOps>>_vars: the store runs and has a readFile, a mkdir or a
\* writeFile under way.
FileOpsEnabled == Running /\ (reads # <<>> \/ writes # <<>>)

\* The clock runs, timers fire when they are due, and every readFile, mkdir
\* and writeFile completes.
SpecUnflushed ==
    /\ Init
    /\ [][NextUnflushed]_vars
    /\ WF_vars(Tick) /\ WF_vars(TimerFire)
    /\ ([]<>~FileOpsEnabled \/ []<><<FileOps>>_vars)

\* The worker's event loop: the dispatch of a message, or of the completion of
\* a file operation.
WorkerLoop ==
    \/ WorkerReceive
    \/ ReadFileDone
    \/ MkdirDone \/ MkdirFail \/ WriteFileDone \/ WriteFileFail

\* ENABLED <<WorkerLoop>>_vars: the worker runs and has a message, a read or a
\* write to dispatch.
WorkerLoopEnabled ==
    /\ ctor = "worker"
    /\ workerAlive
    /\ (toWorker # <<>> \/ reads # <<>> \/ writes # <<>>)

\* A store in worker mode. The event loops of the two threads dispatch every
\* message that was posted and every completion of a file operation.
SpecWorker ==
    /\ Init
    /\ [][NextWorker]_vars
    /\ ([]<>~WorkerLoopEnabled \/ []<><<WorkerLoop>>_vars)
    /\ WF_vars(HandleWorkerMessage)

\* ------------------------------------------------------- properties

\* C1: in a direct-mode store, once putCookie(r) or putCookieSync(r) has
\* completed, whatever came before, a findCookie(r.domain, r.path, r.key)
\* issued next returns r.
C1_PutThenFind ==
    (ctor = "direct" /\ last.op = "putCookie" /\ last.err = "")
        => AsyncOutcome("findCookie", TripleArg(Triple(last.arg.cookie))).res
               = <<last.arg.cookie>>

\* C2: once the store is ready, no completion of init(), whoever started it
\* and whenever, replaces the Index: the operation that awaited it runs on the
\* Index as it is.
C2_LoadedOnce ==
    [][\A i \in 1..Len(reads) :
           (isInitialized /\ reads' = Remove(reads, i))
               => idx' = asyncBody(reads[i].op, reads[i].arg, idx).idx]_vars

\* C3: in every reachable state of the Index no domain-level map and no
\* path-level map is empty.
C3_NoEmptyBranch ==
    \A d \in 1..Len(idx) :
        /\ Len(idx[d].v) > 0
        /\ \A p \in 1..Len(idx[d].v) : Len(idx[d].v[p].v) > 0

\* C4: the mutations of one debounce window are written by one timer, armed
\* by the first of them, and the snapshot that timer's write takes contains
\* the effect of every one of them.
C4_BurstOneWrite ==
    [][/\ (burst'.open /\ ~burst.open)
           => (debounceTimeout'.armed /\ debounceTimeout'.left = DebounceDelay)
       /\ (burst'.open /\ burst.open)
           => (debounceTimeout'.armed
               /\ debounceTimeout'.left + burst'.first = DebounceDelay)
       /\ (debounceTimeout.armed /\ ~debounceTimeout'.armed
           /\ Len(writes') = Len(writes) + 1 /\ writes'[Len(writes')].by = ByTimer)
           => Reflects(FileJson(writes'[Len(writes')].data), burst.eff)]_vars

\* C5: a mutation made while the scheduler is pending resets the deadline:
\* the timer always has debounceDelay less the time since the last mutation
\* left to run.
C5_DeadlineReset ==
    (writePending /\ debounceTimeout.armed /\ burst.open)
        => debounceTimeout.left = DebounceDelay - burst.latest

\* C6: in direct mode a flushData() called while a write is pending cancels
\* the timer and leaves the scheduler clean, and when it returns after its
\* write the file reflects every mutation completed before the call.
C6_FlushWritesAll ==
    [][/\ (Len(writes') = Len(writes) + 1 /\ writes'[Len(writes')].by = ByCaller)
           => (~writePending' /\ ~debounceTimeout'.armed /\ ~debounceTimeout'.handle
               /\ writes'[Len(writes')].data = serializeCookies(idx))
       /\ \A i \in 1..Len(writes) :
              (/\ ctor = "direct"
               /\ writes[i].by = ByCaller
               /\ writes[i].stage = "write"
               /\ writes' = Remove(writes, i)
               /\ file' = FileJson(writes[i].data))
                  => Reflects(file', writes[i].view)]_vars

\* C7: in worker mode, when putCookie(r) has resolved and a flushData() called
\* next on the same store has resolved, the file contains r.
C7_BridgeFlushWrites ==
    [][(/\ ctor = "worker"
        /\ last.op = "putCookie" /\ last.err = ""
        /\ pendingPromises = <<>>
        /\ ctor' = "worker"
        /\ last'.op = "flushData" /\ last'.err = "")
           => Reflects(file', [put |-> {last.arg.cookie}, gone |-> {}])]_vars

\* C8: no store results from a constructor that was given an empty file path.
C8_EmptyPathRejected == filePathOpt = "" => ctor = "none"

\* The calls of the 8 operations.
Calls ==
    {[op |-> op, arg |-> TripleArg(t)] : op \in {"findCookie", "removeCookie"},
                                         t \in PoolTriples}
    \cup {[op |-> op, arg |-> a] : op \in {"findCookies", "removeCookies"},
                                   a \in DomainPathArgs}
    \cup {[op |-> op, arg |-> CookieArg(c)] : op \in {"putCookie", "updateCookie"},
                                              c \in CookiePool}
    \cup {[op |-> op, arg |-> NoArg] : op \in {"removeAllCookies", "getAllCookies"}}

\* C9: for each of the 8 operations the synchronous form, called on a
\* direct-mode store, returns what the asynchronous form called with the same
\* arguments in the same state returns, and leaves the same Index and scheduler.
C9_SyncEqualsAsync ==
    ctor = "direct" => \A c \in Calls : SyncOutcome(c.op, c.arg) = AsyncOutcome(c.op, c.arg)

SentIds == {sent[i] : i \in 1..Len(sent)}

\* The pending map holds the ids sent and not yet answered, no id was sent
\* twice, a response in flight carries a pending id that no other response in
\* flight carries, and a response with an unknown id leaves the map alone.
PendingIsSentNotAnswered ==
    /\ MapKeys(pendingPromises) = SentIds \ handled
    /\ \A i, j \in 1..Len(sent) : i # j => sent[i] # sent[j]
    /\ \A i \in 1..Len(toMain) :
           toMain[i].type = "response" =>
               /\ MapHas(pendingPromises, toMain[i].id)
               /\ \A j \in 1..Len(toMain) :
                      (j # i /\ toMain[j].type = "response") => toMain[j].id # toMain[i].id
    /\ \A id \in 0..(MaxMsgs + 1) :
           ~MapHas(pendingPromises, id)
               => handleWorkerMessage(Response(id, <<>>, ""), pendingPromises)
                      = pendingPromises

\* The bridge's dispatch of a response settles the completion registered under
\* its id, removes that entry and no other.
ResponseSettlesItsId ==
    [][(ctor = "worker" /\ toMain # <<>> /\ toMain' = Tail(toMain)
        /\ Head(toMain).type = "response")
           => /\ MapHas(pendingPromises, Head(toMain).id)
              /\ ~MapHas(pendingPromises', Head(toMain).id)
              /\ \A id \in MapKeys(pendingPromises) \ {Head(toMain).id} :
                     /\ MapHas(pendingPromises', id)
                     /\ MapGet(pendingPromises', id) = MapGet(pendingPromises, id)
              /\ MapGet(pendingPromises, Head(toMain).id).op # "exit"
                     => (/\ last'.op = MapGet(pendingPromises, Head(toMain).id).op
                         /\ last'.arg = MapGet(pendingPromises, Head(toMain).id).arg
                         /\ last'.err = Head(toMain).error)]_vars

\* C10: in worker mode, as long as the worker keeps running, every request
\* sent is eventually answered by exactly one response with its id, which
\* settles the completion registered under that id and removes it; so the
\* pending map is the set of ids sent and not yet answered, and no id is
\* reused.
C10_RequestResponse ==
    /\ []PendingIsSentNotAnswered
    /\ ResponseSettlesItsId
    /\ \A id \in 0..MaxMsgs :
           MapHas(pendingPromises, id) ~> (~MapHas(pendingPromises, id) \/ ~workerAlive)

\* Two requests were sent; the first was answered and its caller has its
\* result, the second is still pending and the worker runs.
C10_Witness ==
    /\ ctor = "worker"
    /\ workerAlive
    /\ Len(sent) = 2
    /\ handled = {sent[1]}
    /\ MapKeys(pendingPromises) = {sent[2]}
    /\ last.op # "none"
    /\ last.op = "flushData" => last.err # ""

\* C11: a worker-backed store behaves as a direct store does for its caller,
\* each call awaited before the next: the caller of a method gets the cookies
\* the store that owns the file returned for it, none lost or altered on the
\* way; and when a flushData() returns normally nothing is left to be written:
\* the scheduler of the store that owns the file is clean, and the file shows
\* the mutations that were waiting for a write when flushData() was called.
C11_WorkerAsDirect ==
    [][(ctor = "worker" /\ ctor' = "worker") =>
           /\ (toMain # <<>> /\ toMain' = Tail(toMain)
               /\ Settles(Head(toMain), pendingPromises))
                  => SerializeAll(last'.res) = Head(toMain).result
           /\ (pendingPromises = <<>> /\ toWorker = <<>>
               /\ last' # last /\ last'.op = "flushData" /\ last'.err = "")
                  => (/\ ~writePending'
                      /\ ~debounceTimeout'.armed
                      /\ burst.open => Reflects(file', burst.eff))]_vars

\* C12: the store a caller holds in worker mode keeps no record and reads no
\* file, whatever asynchronous methods are called on it: its own idx stays
\* empty and it has no readFile under way; the worker's store alone reads and
\* writes.
C12_BridgeHoldsNothing ==
    ctor = "worker" => (bridgeIdx = EmptyIdx /\ bridgeReads = 0)

\* The records of an index, each with the names it is filed under.
IndexRecords(i) ==
    UNION {UNION {{[domain |-> i[a].k, path |-> i[a].v[b].k, key |-> i[a].v[b].v[c].k,
                    cookie |-> i[a].v[b].v[c].v] : c \in 1..Len(i[a].v[b].v)}
                  : b \in 1..Len(i[a].v)}
           : a \in 1..Len(i)}

\* The leaf entries of a file: what stands at [domain][path][key] of a JSON
\* object of objects; a file of another kind has none.
FileLeaves(f) ==
    IF f.kind # "json" THEN {}
    ELSE UNION {UNION {{[domain |-> f.tree[a].k, path |-> f.tree[a].v.m[b].k,
                         key |-> f.tree[a].v.m[b].v.m[c].k,
                         data |-> f.tree[a].v.m[b].v.m[c].v]
                        : c \in 1..Len(f.tree[a].v.m[b].v.m)}
                       : b \in {b \in 1..Len(f.tree[a].v.m) : f.tree[a].v.m[b].v.obj}}
                : a \in {a \in 1..Len(f.tree) : f.tree[a].v.obj}}

\* The leaf entries the codec decodes, decoded.
DecodedRecords(f) ==
    {[domain |-> l.domain, path |-> l.path, key |-> l.key, cookie |-> deserialize(l.data)[1]]
        : l \in {l \in FileLeaves(f) : deserialize(l.data) # <<>>}}

\* init() or initSync() of a store that is not ready, run to its end: no
\* error, and the index holds the decodable leaf entries of the file and
\* nothing else.
LoadsDecodable ==
    (ctor = "direct" /\ ~isInitialized) =>
        /\ AsyncOutcome("init", NoArg).err = ""
        /\ SyncOutcome("init", NoArg).err = ""
        /\ IndexRecords(AsyncOutcome("init", NoArg).idx) = DecodedRecords(file)
        /\ IndexRecords(SyncOutcome("init", NoArg).idx) = DecodedRecords(file)
        /\ (file.kind \in {"missing", "empty", "garbage"}
               => AsyncOutcome("init", NoArg).idx = EmptyIdx
                  /\ SyncOutcome("init", NoArg).idx = EmptyIdx)

\* The step in which init() or initSync() of a store that was not ready ends:
\* the store is ready, and its index holds the decodable leaf entries.
ReadyAfterLoad ==
    [][/\ (ctor = "none" /\ ctor' = "direct" /\ reads' = reads)
           => (isInitialized' /\ idx' = EmptyIdx /\ file'.kind = "missing")
       /\ (ctor = "direct" /\ ~isInitialized /\ last' # last /\ last'.op = "init")
           => (isInitialized' /\ last'.err = ""
               /\ IndexRecords(idx') = DecodedRecords(file))
       /\ \A i \in 1..Len(reads) :
              (ctor = "direct" /\ ~isInitialized /\ reads' = Remove(reads, i)
               /\ reads[i].op = "init")
                  => (isInitialized' /\ IndexRecords(idx') = DecodedRecords(file))
       /\ (ctor = "direct" /\ Len(reads') < Len(reads)) => isInitialized']_vars

\* C13: loading never raises and yields exactly the decodable records: the
\* Index after init() or initSync() is empty when the file is missing, empty
\* or not parseable, and otherwise holds exactly the leaf entries of the file
\* that the codec decodes, an undecodable entry being skipped without its
\* siblings; and the store is ready afterwards in every case.
C13_LoadDecodable == []LoadsDecodable /\ ReadyAfterLoad

\* A store became ready through init() on the hand-edited file: it holds the
\* good leaf and not the undecodable one beside it.
C13_Witness ==
    /\ ctor = "direct"
    /\ isInitialized
    /\ reads = <<>>
    /\ file = FileMixed
    /\ last.op = "init"
    /\ IndexRecords(idx) = DecodedRecords(FileMixed)
    /\ Cardinality(FileLeaves(FileMixed)) = 2
    /\ Cardinality(IndexRecords(idx)) = 1

\* C14: in a direct-mode store, once putCookie(r) has returned, the file
\* exists and holds r's serialized form at [r.domain][r.path][r.key], with no
\* flushData() and no wait for the debounce delay.
C14_PutIsOnDisk ==
    [][(ctor = "direct" /\ last' # last /\ last'.op = "putCookie" /\ last'.err = "")
           => (/\ file'.kind = "json"
               /\ TreeLookup(file'.tree, Triple(last'.arg.cookie))
                      = <<serialize(last'.arg.cookie)>>)]_vars

\* The index a method called now runs on, once its initialization is done.
IndexNow == IF isInitialized THEN idx ELSE LoadedIndex(file)

\* No two cookies of a list have the same (domain, path, key).
NoDuplicateTriples(cookies) ==
    \A a, b \in 1..Len(cookies) : a # b => Triple(cookies[a]) # Triple(cookies[b])

\* Two puts in a row, in either form, from the index as it is: one record per
\* triple, listed once, and the cookie put last is the one found.
PutTwice ==
    ctor = "direct" =>
        /\ NoDuplicateTriples(AllCookies(IndexNow))
        /\ \A c1, c2 \in CookiePool :
               LET i1 == asyncBody("putCookie", CookieArg(c1), IndexNow).idx
                   i2 == asyncBody("putCookie", CookieArg(c2), i1).idx
                   all == asyncBody("getAllCookies", NoArg, i2).res
               IN  /\ syncBody("putCookie", CookieArg(c2),
                               syncBody("putCookie", CookieArg(c1), IndexNow).idx).idx = i2
                   /\ NoDuplicateTriples(AllCookies(i2))
                   /\ NoDuplicateTriples(all)
                   /\ Len(all) = Cardinality(IndexRecords(i2))
                   /\ asyncBody("findCookie", TripleArg(Triple(c2)), i2).res = <<c2>>
                   /\ Triple(c1) # Triple(c2)
                          => asyncBody("findCookie", TripleArg(Triple(c1)), i2).res = <<c1>>
                   /\ Triple(c1) = Triple(c2)
                          => Cardinality(IndexRecords(i2)) = Cardinality(IndexRecords(i1))

\* The step in which a put returns: the index holds the cookie put, once.
PutStored ==
    [][(ctor = "direct" /\ last' # last /\ last'.op \in {"putCookie", "updateCookie"}
        /\ last'.err = "")
           => (/\ findCookieInIndex(idx', last'.arg.cookie.domain, last'.arg.cookie.path,
                                    last'.arg.cookie.key) = <<last'.arg.cookie>>
               /\ NoDuplicateTriples(AllCookies(idx')))]_vars

\* C15: a put with a (domain, path, key) that is already stored replaces the
\* stored record: after any puts the Index holds at most one record per
\* triple, list-all returns each triple once, and find-one returns the record
\* put last for the triple.
C15_PutReplaces == []PutTwice /\ PutStored

\* A cookie was put and written to the file; a second cookie of the same
\* triple was put since, and is the only record of the index.
C15_Witness ==
    /\ ctor = "direct"
    /\ last.op = "putCookie"
    /\ last.arg.cookie = CookieA2
    /\ file = FileJson(serializeCookies(addCookieToIndex(EmptyIdx, CookieA)))
    /\ AllCookies(idx) = <<CookieA2>>

\* The triples removeCookie is called with: those of the callers' cookies and
\* of the domain met in a file.
RemoveTriples == {<<d, p, k>> : d \in Domains \cup {WWW}, p \in Paths, k \in Keys}

\* C16: after removeCookie(domain, path, key), in either form and whatever the
\* Index held, findCookie on the triple finds nothing, every record of another
\* triple is as it was, and when the triple was not stored the Index is as it
\* was.
C16_RemoveOne ==
    ctor = "direct" =>
        \A t \in RemoveTriples : \A form \in {"sync", "async"} :
            LET after == Run(form, "removeCookie", TripleArg(t), IndexNow).idx
            IN  /\ asyncBody("findCookie", TripleArg(t), after).res = <<>>
                /\ IndexRecords(after)
                       = {r \in IndexRecords(IndexNow) : <<r.domain, r.path, r.key>> # t}
                /\ asyncBody("findCookie", TripleArg(t), IndexNow).res = <<>>
                       => after = IndexNow

\* C17: removeCookies(domain, path), in either form: for every path that is
\* given, the empty string included, exactly the records under (domain, path)
\* are removed; with the path omitted or null exactly the records of the
\* domain are removed.
C17_RemoveMany ==
    ctor = "direct" =>
        \A d \in Domains \cup {WWW} : \A form \in {"sync", "async"} :
            /\ \A p \in Paths \cup {""} :
                   IndexRecords(Run(form, "removeCookies", Arg(NoCookie, d, p, ""),
                                    IndexNow).idx)
                       = {r \in IndexRecords(IndexNow) : ~(r.domain = d /\ r.path = p)}
            /\ IndexRecords(Run(form, "removeCookies", Arg(NoCookie, d, NoPath, ""),
                                IndexNow).idx)
                   = {r \in IndexRecords(IndexNow) : r.domain # d}

\* What find-many is to return for a domain and a path, from the records of an
\* index: the records of the candidate domains, all of them when the path is
\* omitted, those whose stored path matches the requested one when it is given.
FindManyExpected(i, domain, path) ==
    LET candidates == IF permuteDomain(domain) = <<>> THEN {domain}
                      ELSE {permuteDomain(domain)[n] : n \in 1..Len(permuteDomain(domain))}
    IN  {r.cookie : r \in {r \in IndexRecords(i) :
                              /\ r.domain \in candidates
                              /\ path # NoPath => pathMatch(path, r.path)}}

\* C18: find-many returns, for each candidate domain of the domain expansion
\* (the domain itself when the expansion yields nothing) that the Index holds,
\* every record of the domain when the path is omitted and exactly the records
\* whose stored path matches the requested path when a path is given, and
\* nothing else.
C18_FindMany ==
    ctor = "direct" =>
        \A d \in Domains \cup {WWW, "localhost"} : \A p \in Paths \cup {"", NoPath} :
            LET res == asyncBody("findCookies", Arg(NoCookie, d, p, ""), IndexNow).res
            IN  /\ {res[n] : n \in 1..Len(res)} = FindManyExpected(IndexNow, d, p)
                /\ Len(res) = Cardinality(FindManyExpected(IndexNow, d, p))

\* Cookies of every kind of creation: none, 'Infinity', time zero.
CookieN == Cookie(EXAMPLE, "/x", "n", "v1", Null)
CookieI == Cookie(EXAMPLE, "/", "i", "v1", Infinity)
CookieZ == Cookie(WWW, "/", "z", "v1", 0)

\* The creation time list-all orders by, and the order of two times: no
\* creation counts as time zero, 'Infinity' is after every time.
CreationTime(c) == IF c.creation = Null THEN 0 ELSE c.creation

NotAfter(a, b) ==
    \/ CreationTime(b) = Infinity
    \/ CreationTime(a) # Infinity /\ CreationTime(a) <= CreationTime(b)

Position(s, x) == CHOOSE n \in 1..Len(s) : s[n] = x

\* res lists the records of index i: each once, in ascending order of
\* creation time, and records of equal time in the order of enumeration.
ListsAll(res, i) ==
    /\ Len(res) = Len(AllCookies(i))
    /\ {res[n] : n \in 1..Len(res)} = {r.cookie : r \in IndexRecords(i)}
    /\ \A m, n \in 1..Len(res) :
           m < n => /\ res[m] # res[n]
                    /\ NotAfter(res[m], res[n])
                    /\ CreationTime(res[m]) = CreationTime(res[n])
                           => Position(AllCookies(i), res[m]) < Position(AllCookies(i), res[n])

\* list-all, in either form, on the index as it is and with cookies of every
\* kind of creation added to it.
ListAllSorted ==
    ctor = "direct" =>
        /\ ListsAll(asyncBody("getAllCookies", NoArg, IndexNow).res, IndexNow)
        /\ \A c1 \in {CookieN, CookieI} : \A c2 \in {CookieZ, CookieI, CookieN} :
               LET i == addCookieToIndex(addCookieToIndex(IndexNow, c1), c2)
               IN  /\ ListsAll(asyncBody("getAllCookies", NoArg, i).res, i)
                   /\ syncBody("getAllCookies", NoArg, i).res
                          = asyncBody("getAllCookies", NoArg, i).res

\* The step in which list-all returns.
ListAllReturned ==
    [][(ctor = "direct" /\ last' # last /\ last'.op = "getAllCookies" /\ last'.err = "")
           => ListsAll(last'.res, idx')]_vars

\* C19: list-all returns every record of the Index exactly once, in ascending
\* order of creation time: a record of creation 'Infinity' after all finite
\* times, a record without creation as time zero, and records of equal
\* creation in their order of enumeration.
C19_ListAllSorted == []ListAllSorted /\ ListAllReturned

\* list-all returned on an index that enumerates the cookie of creation
\* 'Infinity' first: it is listed last.
C19_Witness ==
    /\ ctor = "direct"
    /\ last.op = "getAllCookies"
    /\ AllCookies(idx) = <<CookieW, CookieA>>
    /\ last.res = <<CookieA, CookieW>>

\* update, in either form, from the state as it is: the index and the
\* scheduler it leaves are those put of the new cookie leaves, whatever the old
\* cookie.
UpdateAsPut ==
    ctor = "direct" =>
        \A old \in CookiePool \cup {CookieW} : \A new \in CookiePool :
            /\ AsyncOutcome("updateCookie", UpdateArg(old, new))
                   = AsyncOutcome("putCookie", CookieArg(new))
            /\ SyncOutcome("updateCookie", UpdateArg(old, new))
                   = SyncOutcome("putCookie", CookieArg(new))

\* The step in which update, called on a store that is ready, returns.
UpdateReturned ==
    [][(ctor = "direct" /\ isInitialized /\ ops' = ops + 1 /\ last' # last
        /\ last'.op = "updateCookie")
           => LET put == AsyncOutcome("putCookie", CookieArg(last'.arg.cookie))
              IN  /\ idx' = put.idx
                  /\ writePending' = put.writePending
                  /\ debounceTimeout' = put.debounceTimeout]_vars

\* C20: update(oldRecord, newRecord) leaves the Index and the scheduler in
\* the state put(newRecord) would, for every oldRecord: the old record is not
\* consulted, and the triple of the new one alone says which entry is written.
C20_UpdateIsPut == []UpdateAsPut /\ UpdateReturned

\* update returned with an old cookie of another triple than the new one's:
\* the old cookie is still in the index, beside the new one.
C20_Witness ==
    /\ ctor = "direct"
    /\ last.op = "updateCookie"
    /\ last.arg = UpdateArg(CookieB, CookieA)
    /\ AllCookies(idx) = <<CookieB, CookieA>>

\* A failure response for the id is among the messages the bridge has not
\* dispatched yet.
FailureInFlight(id) ==
    \E j \in 1..Len(toMain) :
        toMain[j].type = "response" /\ toMain[j].id = id /\ toMain[j].error # ""

\* The step in which the worker's handler catches a failure: one response is
\* posted, with the error and the id of the request that was being handled,
\* and no 'flushed' event; what was posted before stays as it was, no other
\* request of the worker is dropped, and the worker runs on.
FailureRelayed ==
    [][(/\ ctor = "worker"
        /\ Len(toMain') = Len(toMain) + 1
        /\ toMain'[Len(toMain')].type = "response"
        /\ toMain'[Len(toMain')].error # "")
           => LET r == toMain'[Len(toMain')]
              IN  /\ SubSeq(toMain', 1, Len(toMain)) = toMain
                  /\ \/ /\ \E i \in 1..Len(writes) :
                               writes[i].by = ByMessage(r.id) /\ writes' = Remove(writes, i)
                        /\ toWorker' = toWorker
                     \/ /\ toWorker # <<>>
                        /\ Head(toWorker).id = r.id
                        /\ toWorker' = Tail(toWorker)
                        /\ writes' = writes
                  /\ r.result = <<>>
                  /\ \A j \in 1..Len(toMain) :
                         toMain[j].type = "response" => toMain[j].id # r.id
                  /\ MapHas(pendingPromises, r.id)
                  /\ pendingPromises' = pendingPromises
                  /\ workerAlive'
                  /\ UNCHANGED <<idx, isInitialized, reads, file, last>>]_vars

\* The step in which the bridge dispatches a failure response: the completion
\* registered under its id is rejected with the error and removed, and every
\* other completion stays registered as it was.
FailureRejectsOne ==
    [][(/\ ctor = "worker"
        /\ toMain # <<>>
        /\ toMain' = Tail(toMain)
        /\ Head(toMain).type = "response"
        /\ Head(toMain).error # "")
           => LET m == Head(toMain)
              IN  /\ MapHas(pendingPromises, m.id)
                  /\ ~MapHas(pendingPromises', m.id)
                  /\ \A id \in MapKeys(pendingPromises) \ {m.id} :
                         /\ MapHas(pendingPromises', id)
                         /\ MapGet(pendingPromises', id) = MapGet(pendingPromises, id)
                  /\ IF MapGet(pendingPromises, m.id).op = "exit" THEN last' = last
                     ELSE last' = [op |-> MapGet(pendingPromises, m.id).op,
                                   arg |-> MapGet(pendingPromises, m.id).arg,
                                   res |-> <<>>, err |-> m.error]]_vars

\* The step in which the bridge dispatches the response of another request
\* while a failure response is in flight: that request is resolved with the
\* result the worker's store returned for it.
OthersSettled ==
    [][(/\ ctor = "worker"
        /\ toMain # <<>>
        /\ toMain' = Tail(toMain)
        /\ Head(toMain).type = "response"
        /\ Head(toMain).error = ""
        /\ \E id \in 0..(MaxMsgs + 1) : FailureInFlight(id))
           => LET m == Head(toMain)
              IN  /\ MapHas(pendingPromises, m.id)
                  /\ ~MapHas(pendingPromises', m.id)
                  /\ MapGet(pendingPromises, m.id).op # "exit"
                         => (/\ last'.op = MapGet(pendingPromises, m.id).op
                             /\ last'.arg = MapGet(pendingPromises, m.id).arg
                             /\ last'.err = ""
                             /\ SerializeAll(last'.res) = m.result)]_vars

\* A request is among the messages the worker has not dispatched yet.
Queued(id) == \E j \in 1..Len(toWorker) : toWorker[j].id = id

TimerSaveEndsUnwritten(i) ==
    /\ ctor = "direct"
    /\ writes[i].by = ByTimer
    /\ writes[i].stage = "write"
    /\ writes' = Remove(writes, i)
    /\ file' = file

\* The step in which the writeFile of a timer's save fails: no call's outcome
\* changes, the index and the scheduler are as they were, and the scheduler is
\* clean with no timer armed unless a mutation was made since the timer fired.
FailedWriteIsDropped ==
    [][\A i \in 1..Len(writes) :
           TimerSaveEndsUnwritten(i)
               => /\ UNCHANGED <<last, toMain, idx, isInitialized, writePending,
                                 debounceTimeout, reads>>
                  /\ ~burst.open => (~writePending' /\ ~debounceTimeout'.armed)]_vars

\* The step in which a save starts: the scheduler was pending by a mutation made
\* since it was last clean, and the step is the timer that mutation armed or a
\* flushData().
WriteNeedsMutation ==
    [][(ctor = "direct" /\ Len(writes') > Len(writes))
           => /\ writePending
              /\ burst.open
              /\ \/ debounceTimeout.armed /\ debounceTimeout.left = 0
                 \/ ops' = ops + 1 /\ writes'[Len(writes')].by = ByCaller]_vars

\* C22: when the writeFile of a timer-triggered save fails, no error reaches a
\* caller, the Index is unchanged, the scheduler is left clean and no retry is
\* armed: a save starts only when a mutation has made the scheduler pending
\* again, by the timer of that mutation or by a flushData() that finds it
\* pending.
C22_FailedWriteNotRetried == FailedWriteIsDropped /\ WriteNeedsMutation

\* The timer's save of a put ended without the file being written, and a
\* flushData() called after it found the scheduler clean: it returned at once,
\* no save is under way, and the file is still missing while the index holds
\* the cookie.
C22_Witness ==
    /\ ctor = "direct"
    /\ file = FileMissing
    /\ AllCookies(idx) = <<CookieA>>
    /\ last.op = "flushData"
    /\ last.err = ""
    /\ ~writePending
    /\ ~debounceTimeout.armed
    /\ debounceTimeout.handle
    /\ writes = <<>>

MutatingOps == {"putCookie", "updateCookie", "removeCookie", "removeCookies",
                "removeAllCookies"}
ReadingOps == {"findCookie", "findCookies", "getAllCookies"}

\* The calls of the 8 operations, with those of a record the store may not
\* hold: a domain met in a file only, a path given as the empty string.
FrameCalls ==
    Calls
    \cup {[op |-> op, arg |-> TripleArg(t)] : op \in {"findCookie", "removeCookie"},
                                             t \in RemoveTriples}
    \cup {[op |-> op, arg |-> Arg(NoCookie, d, p, "")] :
              op \in {"findCookies", "removeCookies"},
              d \in Domains \cup {WWW}, p \in Paths \cup {"", NoPath}}
    \cup {[op |-> "updateCookie", arg |-> UpdateArg(old, new)] :
              old \in CookiePool \cup {CookieW}, new \in CookiePool}

\* Each operation, in either form, called now and run to its end: a mutation
\* leaves writePending set, whatever it did to the index; a read on a ready
\* store leaves the index, writePending and the timer as they are.
FrameOfEach ==
    ctor = "direct" =>
        \A c \in FrameCalls : \A form \in {"sync", "async"} :
            LET r == Run(form, c.op, c.arg, IndexNow)
            IN  /\ c.op \in MutatingOps => r.writePending
                /\ (c.op \in ReadingOps /\ isInitialized)
                       => (/\ r.idx = idx
                           /\ r.writePending = writePending
                           /\ r.debounceTimeout = debounceTimeout)

\* The steps in which an operation completes: at its call, or when the
\* readFile it awaited completes.
FrameOfSteps ==
    [][/\ (/\ ctor = "direct"
           /\ ops' = ops + 1 /\ reads' = reads /\ writes' = writes
           /\ last'.op \in MutatingOps)
              => writePending'
       /\ \A i \in 1..Len(reads) :
              (ctor = "direct" /\ reads' = Remove(reads, i) /\ reads[i].op \in MutatingOps)
                  => writePending'
       /\ (/\ ctor = "direct"
           /\ isInitialized
           /\ ops' = ops + 1 /\ reads' = reads /\ writes' = writes
           /\ last'.op \in ReadingOps)
              => UNCHANGED <<idx, writePending, debounceTimeout, file>>]_vars

\* C23: in direct mode each of the five mutating operations leaves the
\* scheduler pending when it completes, also when it did not change the Index;
\* each of the three read operations on a ready store changes neither the Index
\* nor the scheduler.
C23_MutationsMarkDirty == []FrameOfEach /\ FrameOfSteps

\* removeCookie of a record the store does not hold returned on an empty, clean
\* store: the index is empty as before, and the scheduler is pending with its
\* timer armed.
C23_Witness ==
    /\ ctor = "direct"
    /\ ops = 1
    /\ last.op = "removeCookie"
    /\ file = FileMissing
    /\ idx = EmptyIdx
    /\ writePending
    /\ debounceTimeout.armed

\* The request registered under the id is one the bridge posted as 'flush' or
\* 'save'.
FlushRequest(id) ==
    /\ MapHas(pendingPromises, id)
    /\ MapGet(pendingPromises, id).op \in {"exit", "flushData"}

\* The message is the response of a 'flush' or 'save' request that was handled
\* without an error.
FlushSucceeded(m) == m.type = "response" /\ m.error = "" /\ FlushRequest(m.id)

\* The step in which the worker dispatches a 'flush' or 'save' request while
\* its store has a write pending: flushData() clears the timer, leaves the
\* scheduler clean and starts the save of the index as it is, and nothing is
\* posted before that save has ended.
WorkerFlushes ==
    [][(/\ ctor = "worker"
        /\ toWorker # <<>>
        /\ toWorker' = Tail(toWorker)
        /\ Head(toWorker).type \in {"save", "flush"}
        /\ writePending)
           => /\ ~writePending'
              /\ ~debounceTimeout'.armed
              /\ Len(writes') = Len(writes) + 1
              /\ writes'[Len(writes')].by = ByMessage(Head(toWorker).id)
              /\ writes'[Len(writes')].data = serializeCookies(idx)
              /\ toMain' = toMain]_vars

\* The step in which the worker posts: a request ends with one response, and
\* the response of a 'flush' or 'save' request handled without an error is
\* preceded by one 'flushed' event, posted in the same step, when the
\* flushData() of the worker's store has returned; no other response is.
FlushedPosted ==
    [][(ctor = "worker" /\ Len(toMain') > Len(toMain))
           => LET new == SubSeq(toMain', Len(toMain) + 1, Len(toMain'))
                  r == new[Len(new)]
              IN  /\ SubSeq(toMain', 1, Len(toMain)) = toMain
                  /\ r.type = "response"
                  /\ IF FlushSucceeded(r)
                     THEN /\ new = <<FlushedEvent, r>>
                          /\ \/ /\ toWorker # <<>>
                                /\ Head(toWorker).id = r.id
                                /\ Head(toWorker).type \in {"save", "flush"}
                                /\ toWorker' = Tail(toWorker)
                                /\ ~writePending
                                /\ writes' = writes
                             \/ \E i \in 1..Len(writes) :
                                    /\ writes[i].by = ByMessage(r.id)
                                    /\ writes[i].stage = "write"
                                    /\ writes' = Remove(writes, i)
                     ELSE new = <<r>>]_vars

\* A 'flushed' event in flight stands right before the response of its
\* request; while the process runs no flush has been resolved yet, and the
\* bridge has emitted 'flushed' once exactly when the next message to dispatch
\* is the response of a flush whose event it has dispatched.
FlushedPrecedesResponse ==
    ctor = "worker" =>
        /\ \A j \in 1..Len(toMain) :
               /\ toMain[j].type = "event"
                      => (j < Len(toMain) /\ FlushSucceeded(toMain[j + 1]))
               /\ (FlushSucceeded(toMain[j]) /\ j > 1) => toMain[j - 1].type = "event"
        /\ flushedEmitted = IF toMain # <<>> /\ FlushSucceeded(toMain[1]) THEN 1 ELSE 0

\* The step in which the bridge dispatches a message: a 'flushed' event is
\* emitted and settles nothing; a response emits nothing, and the response of
\* a flush handled without an error is dispatched after its event was emitted.
EmitsBeforeResolve ==
    [][(ctor = "worker" /\ toMain # <<>> /\ toMain' = Tail(toMain))
           => /\ Head(toMain).type = "event"
                     => (/\ flushedEmitted' = flushedEmitted + 1
                         /\ pendingPromises' = pendingPromises
                         /\ last' = last
                         /\ toMain' # <<>>
                         /\ FlushSucceeded(Head(toMain')))
              /\ Head(toMain).type = "response"
                     => (/\ flushedEmitted' = flushedEmitted
                         /\ FlushSucceeded(Head(toMain)) => flushedEmitted = 1)]_vars

\* C24: in worker mode each 'flush' or 'save' request handled without an error
\* makes the worker's store flush and the worker post exactly one 'flushed'
\* event, which the bridge emits before it resolves the completion of that
\* request; no request of another type, and no request that failed, produces
\* a 'flushed' event.
C24_FlushedOncePerFlush ==
    /\ WorkerFlushes
    /\ FlushedPosted
    /\ []FlushedPrecedesResponse
    /\ EmitsBeforeResolve

\* The worker wrote the cookie that was put when it handled the 'flush' of
\* request 1; the bridge has emitted 'flushed', and the response of request 1
\* is the next message it dispatches.
C24_Witness ==
    /\ ctor = "worker"
    /\ flushedEmitted = 1
    /\ toMain = <<Response(1, <<>>, "")>>
    /\ FlushRequest(1)
    /\ file = FileJson(serializeCookies(addCookieToIndex(EmptyIdx, CookieA)))
    /\ writes = <<>>
    /\ ~writePending

\* The worker has stopped with the request of the id registered and no
\* response to it posted.
Stranded(id) ==
    /\ ctor \in {"worker", "exited"}
    /\ ~workerAlive
    /\ MapHas(pendingPromises, id)
    /\ \A j \in 1..Len(toMain) : toMain[j].type = "response" => toMain[j].id # id

\* The step in which the worker stops: the bridge's listeners of 'error' and
\* 'exit' log, and settle and remove nothing.
StopSettlesNothing ==
    [][(ctor = "worker" /\ ctor' = "worker" /\ workerAlive /\ ~workerAlive')
           => UNCHANGED <<pendingPromises, handled, last, toMain>>]_vars

\* Every step after the worker has stopped: a request left without a response
\* stays registered as it was and is not settled, and a request posted to the
\* stopped worker is left in the same way.
StrandedForGood ==
    [][/\ \A id \in 0..(MaxMsgs + 1) :
              Stranded(id) => (/\ Stranded(id)'
                               /\ MapGet(pendingPromises', id) = MapGet(pendingPromises, id)
                               /\ id \notin handled'
                               /\ ~workerAlive')
       /\ (ctor = "worker" /\ ~workerAlive /\ Len(sent') > Len(sent))
              => LET id == sent'[Len(sent')]
                 IN  /\ ~workerAlive'
                     /\ MapHas(pendingPromises', id)
                     /\ \A j \in 1..Len(toMain') :
                            toMain'[j].type = "response" => toMain'[j].id # id]_vars

\* C25: when the worker terminates or raises an error while requests are
\* pending, the bridge neither resolves nor rejects them: the entry of every
\* request the worker had not answered stays in the pending map in every later
\* state, and its caller's completion never settles.
C25_PendingLeftUnsettled == StopSettlesNothing /\ StrandedForGood

\* The worker stopped with request 0 suspended in its readFile and request 1
\* not yet dispatched: both are registered, neither has a response.
C25_Witness ==
    /\ ctor = "worker"
    /\ Stranded(0)
    /\ Stranded(1)
    /\ toMain = <<>>
    /\ Len(toWorker) = 1
    /\ Len(reads) = 2
    /\ handled = {}

\* The timer of this.debounceTimeout is still to fire exactly when
\* writePending is set.
TimerIffPending == ctor = "direct" => (debounceTimeout.armed <=> writePending)

\* The step in which setTimeout is called: no timer was still to fire, so two
\* timers never run at a time.
ArmsWhenNoneArmed ==
    [][(/\ ctor = "direct"
        /\ debounceTimeout' # debounceTimeout
        /\ debounceTimeout'.armed
        /\ debounceTimeout'.left = DebounceDelay)
           => (~debounceTimeout.armed /\ ~writePending /\ writePending')]_vars

\* The step in which the timer fires: the scheduler was pending, and is clean
\* afterwards with no timer left.
FiresWhenPending ==
    [][(ctor = "direct" /\ debounceTimeout.armed /\ ~debounceTimeout'.armed)
           => (/\ writePending
               /\ ~writePending'
               /\ \/ debounceTimeout.left = 0 /\ writes'[Len(writes')].by = ByTimer
                  \/ ops' = ops + 1 /\ writes'[Len(writes')].by = ByCaller)]_vars

\* C26: in direct mode a debounce timer is armed exactly when the scheduler is
\* pending, and a timer is set only when none is armed; so no timer fires
\* while the scheduler is clean, and a pending scheduler is always cleared, by
\* its timer when nothing else does it.
C26_TimerIffPending ==
    /\ []TimerIffPending
    /\ ArmsWhenNoneArmed
    /\ FiresWhenPending
    /\ (writePending ~> ~writePending)

\* The timer of a first put has fired and its save was written; a second put
\* has marked the scheduler pending again and set a new timer, which has one
\* tick left to run.
C26_Witness ==
    /\ ctor = "direct"
    /\ ops = 2
    /\ last.op = "putCookie"
    /\ file = FileJson(serializeCookies(addCookieToIndex(EmptyIdx, CookieA)))
    /\ AllCookies(idx) = <<CookieA, CookieB>>
    /\ writePending
    /\ debounceTimeout.armed
    /\ debounceTimeout.left = 1
    /\ writes = <<>>

\* The store is ready and at rest: no load and no save is under way, and the
\* scheduler is clean.
AtRest ==
    /\ ctor = "direct"
    /\ isInitialized
    /\ reads = <<>>
    /\ writes = <<>>
    /\ ~writePending

\* The file holds the index: it is the serialization of the index, or the
\* index is empty and no file was written.
FileHoldsIndex ==
    \/ file = FileJson(serializeCookies(idx))
    \/ file = FileMissing /\ idx = EmptyIdx

\* C27: in direct mode, from a missing or well-formed file and with no write
\* failing, whenever the scheduler is clean and no load and no write is under
\* way, the file is the serialization of the Index, whatever the order of
\* mutations, timer firings, flushes and completions of loads and writes.
C27_CleanMeansOnDisk == AtRest => FileHoldsIndex

\* C28: in direct mode, with the timer and the file operations fair, no write
\* failing and flushData() never called, the mutations made since the
\* scheduler was last clean are always followed by a save whose snapshot is
\* taken after them; and once mutations have stopped the store comes to rest
\* with the file the serialization of the Index, and stays so.
C28_EventuallyOnDisk ==
    /\ burst.open ~> (~burst.open /\ writes # <<>>)
    /\ <>[](ctor = "direct" => (AtRest /\ FileHoldsIndex))

====
